---- MODULE Spec2Model ----
(***************************************************************************)
(* Model of flexx/pair/pair.py: the Python half and the JavaScript half of *)
(* a Pair object, the command channel from Python to JS (proxy._exec), the *)
(* push channel from JS to Python (flexx.ws.send), and the process-wide    *)
(* instance registry with its id counter.                                  *)
(*                                                                         *)
(* Four specifications share the module:                                   *)
(*   Spec      one Pair object and its JS mirror exchanging signal values; *)
(*   SpecIds   a process constructing and collecting Pair instances;       *)
(*   SpecLww   Spec with writes on the Python side only;                   *)
(*   SpecMeta  PairMeta.__init__ run for the classes of a small hierarchy. *)
(*                                                                         *)
(* The values of the Python instance's signals are state of the reactive   *)
(* layer (flexx.react), which pair.py reads only in _signal_changed, at    *)
(* the moment of the change; the model passes them with the notification.  *)
(***************************************************************************)
EXTENDS Integers, Sequences, FiniteSets, TLC

(* ------------------------------ bounds -------------------------------- *)

\* signal values are 0..MaxVal; 0 is the default of every signal
MaxVal == 1
\* most messages in flight, over the command channel and the push channel
MaxQueue == 1
\* most subscribers a JSSignal gets
MaxSubs == 2
\* SpecIds: most instances a process constructs
MaxCounter == 11
\* SpecIds: most instances alive at a time
MaxLive == 2

Values == 0 .. MaxVal

(* ------------------------- the modelled classes ------------------------ *)

\* Two Pair subclasses. Class "W" declares, in its Python body, an input
\* signal "val" and a plain signal "hid"; in its JS body, a source signal
\* "pos" and a method "hid", so that the Python signal "hid" collides.
\* Class "W1" declares a plain Python signal "out" and a private JS source
\* signal "_tmp".
ClassNames == {"W", "W1"}

PyBodyOf(c) ==
    IF c = "W" THEN ("val" :> "InputSignal") @@ ("hid" :> "Signal")
    ELSE ("out" :> "Signal")

JSBodyOf(c) ==
    IF c = "W" THEN ("pos" :> "Signal") @@ ("hid" :> "function")
    ELSE ("_tmp" :> "Signal")

\* what the attribute `name` of the companion JS class of c is after PairMeta
\* ran: the class's own JS member, else the proxy of a Python signal
JSAttrOf(c, name) ==
    IF name \in DOMAIN JSBodyOf(c) THEN JSBodyOf(c)[name]
    ELSE IF name \in DOMAIN PyBodyOf(c)
         THEN IF PyBodyOf(c)[name] = "InputSignal" THEN "PyInputSignal"
              ELSE "PySignal"
         ELSE "undefined"

\* what the attribute `name` of the Python class c is after PairMeta ran: the
\* class's own member, else the proxy of a JS signal
PyAttrOf(c, name) ==
    IF name \in DOMAIN PyBodyOf(c) THEN PyBodyOf(c)[name]
    ELSE IF name \in DOMAIN JSBodyOf(c) /\ JSBodyOf(c)[name] = "Signal"
         THEN "JSSignal"
         ELSE "undefined"

Names == {"val", "hid", "pos", "out", "_tmp"}

\* signal._name.startswith('_')
StartsWithUnderscore(name) == name \in {"_tmp"}

(* ------------------------------ the codec ------------------------------ *)

Digit(d) ==
    CASE d = 0 -> "0" [] d = 1 -> "1" [] d = 2 -> "2" [] d = 3 -> "3"
      [] d = 4 -> "4" [] d = 5 -> "5" [] d = 6 -> "6" [] d = 7 -> "7"
      [] d = 8 -> "8" [] d = 9 -> "9"

\* str(n) of a natural number
RECURSIVE str(_)
str(n) == IF n < 10 THEN Digit(n) ELSE str(n \div 10) \o Digit(n % 10)

\* serializer.saves(value): the JSON text of a number
saves(v) == str(v)

\* serializer.loads(text) succeeds
CanLoad(text) == \E v \in Values : saves(v) = text

\* serializer.loads(text)
loads(text) == CHOOSE v \in Values : saves(v) = text

(* ------------------------------- state --------------------------------- *)

VARIABLES
    counter,          \* Pair._counter
    instances,        \* Pair._instances: id -> the object registered under it
    heap,             \* the Pair objects alive in the Python process
    cls,              \* Spec: the class of the modelled instance
    downstream,       \* Python instance: len(_downstream) of each JSSignal
    linked,           \* Python instance: _linked of each JSSignal
    written,          \* SpecLww: the value Python wrote last to each signal
    cmds,             \* commands given to proxy._exec, not yet run by JS
    wsq,              \* messages given to flexx.ws.send, not yet received
    jsinst,           \* flexx.instances holds the JS instance
    jsval,            \* JS instance: value of each signal
    jsts,             \* JS instance: _timestamp of each signal
    lock,             \* JS instance: _signal_emit_lock
    linked_signals,   \* JS instance: keys of _linked_signals
    jserr,            \* what the JS side ran last raised an error
    ws,               \* flexx.ws is not None: the page is connected, not
                      \* exported and not closed
    pydict,           \* SpecMeta: __dict__ of each defined class
    jsdict,           \* SpecMeta: __dict__ of the JS class of each of them
    jsdecl            \* SpecMeta: the JS body each of them declared

vars == <<counter, instances, heap, cls, downstream, linked, written, cmds, wsq,
          jsinst, jsval, jsts, lock, linked_signals, jserr, ws, pydict, jsdict,
          jsdecl>>

idvars == <<counter, instances, heap>>

pyvars == <<cls, downstream, linked, written>>

jsvars == <<jsinst, jsval, jsts, lock, linked_signals, jserr>>

metavars == <<pydict, jsdict, jsdecl>>

\* the attributes of each class, tabulated
JSAttrs == [c \in ClassNames |-> [n \in Names |-> JSAttrOf(c, n)]]

PyAttrs == [c \in ClassNames |-> [n \in Names |-> PyAttrOf(c, n)]]

JSAttr(name) == JSAttrs[cls][name]

PyAttr(name) == PyAttrs[cls][name]

\* the signals of an instance of the JS class of c
JSSignalsOf ==
    [c \in ClassNames |->
        {n \in Names : JSAttrs[c][n] \in {"Signal", "PyInputSignal", "PySignal"}}]

JSSignals == JSSignalsOf[cls]

\* the signals of an instance of c that are proxies of JS signals
JSSignalNamesOf ==
    [c \in ClassNames |-> {n \in Names : PyAttrs[c][n] = "JSSignal"}]

JSSignalNames == JSSignalNamesOf[cls]

(* -------------------------- instance registry -------------------------- *)

\* None, which is no object: objects are named by creation ordinals from 1
None == 0

\* self.__class__.__name__ + str(Pair._counter)
MakeId(c, n) == c \o str(n)

\* get_instance_by_id(id): the object, by its creation ordinal, or None
get_instance_by_id(id) ==
    IF id \in DOMAIN instances THEN instances[id] ELSE None

\* the command texts of Pair.__init__, _signal_changed and _link_js_signal
Command(kind, id, name, arg) == [kind |-> kind, id |-> id, name |-> name, arg |-> arg]

\* the apply-commands that signal initialisation submits for an instance of
\* class c: one for each input signal, carrying its default
InitCommands(c, id) ==
    IF "val" \in DOMAIN PyBodyOf(c)
    THEN <<Command("_set_signal_from_py", id, "val", saves(0))>>
    ELSE <<>>

\* Pair.__init__ of a new instance of class c
ConstructPair(c) ==
    /\ counter < MaxCounter
    /\ Cardinality(heap) < MaxLive
    /\ counter' = counter + 1
    /\ LET id == MakeId(c, counter')
       IN  /\ instances' = (id :> counter') @@ instances
           /\ heap' = heap \cup {[h |-> counter', cls |-> c, id |-> id]}
           /\ cmds' = cmds \o <<Command("new", id, c, id)>> \o InitCommands(c, id)
    /\ UNCHANGED <<wsq, ws>>
    /\ UNCHANGED pyvars
    /\ UNCHANGED jsvars
    /\ UNCHANGED metavars

\* the garbage collector frees the unreferenced instance o; the registry is a
\* WeakValueDictionary, which drops the entry that refers to o
Collect(o) ==
    /\ o \in heap
    /\ heap' = heap \ {o}
    /\ instances' = [k \in {i \in DOMAIN instances : instances[i] # o.h}
                       |-> instances[k]]
    /\ UNCHANGED <<counter, cmds, wsq, ws>>
    /\ UNCHANGED pyvars
    /\ UNCHANGED jsvars
    /\ UNCHANGED metavars

(* ---------------------------- Python side ------------------------------ *)

\* the id of the modelled instance, the first one its process constructed
PairId == MakeId(cls, 1)

\* PairSignalChanged submitting for plain non-input signals only
PairSignalChanged_SkipsInput(name, value, q) ==
    IF PyAttr(name) = "Signal"
    THEN Append(q, Command("_set_signal_from_py", PairId, name, saves(value)))
    ELSE q

\* PairSignalChanged without its test for JSSignal
PairSignalChanged_NoProxyTest(name, value, q) ==
    Append(q, Command("_set_signal_from_py", PairId, name, saves(value)))

\* Pair._signal_changed(signal): the commands after it, given those before
PairSignalChanged(name, value, q) ==
    IF PyAttr(name) # "JSSignal"
    THEN Append(q, Command("_set_signal_from_py", PairId, name, saves(value)))
    ELSE q

\* Pair._link_js_signal(name, link)
PairLinkJsSignal(name, link, q) ==
    Append(q, Command("_link_js_signal", PairId, name,
                      IF link THEN "true" ELSE "false"))

\* a text that serializer.loads rejects
BadText == "{"

\* Pair.call_js(call), for the call '_set_signal_from_py(<name>, <text>)'
\* with the name of a mirror proxy and a malformed text
CallJs(n) ==
    /\ JSAttr(n) \in {"PySignal", "PyInputSignal"}
    /\ Len(cmds) + Len(wsq) < MaxQueue
    /\ cmds' = Append(cmds, Command("_set_signal_from_py", PairId, n, BadText))
    /\ UNCHANGED <<wsq, ws>>
    /\ UNCHANGED idvars
    /\ UNCHANGED metavars
    /\ UNCHANGED pyvars
    /\ UNCHANGED jsvars

\* the history of writes after the write of v to n, where one is kept
Record(h, n, v) == IF n \in DOMAIN h THEN [h EXCEPT ![n] = v] ELSE h

\* a signal that lives in Python gets the value v; the reactive layer then
\* calls _signal_changed
PyWrite(n, v) ==
    /\ PyAttr(n) \in {"Signal", "InputSignal"}
    /\ Len(cmds) + Len(wsq) < MaxQueue
    /\ cmds' = PairSignalChanged(n, v, cmds)
    /\ written' = Record(written, n, v)
    /\ UNCHANGED <<cls, downstream, linked, wsq, ws>>
    /\ UNCHANGED idvars
    /\ UNCHANGED metavars
    /\ UNCHANGED jsvars

\* JSSignal._subscribe sends a link notification
SubscribeLinks(isLinked) == ~isLinked

\* JSSignal._subscribe
Subscribe(n) ==
    /\ n \in JSSignalNames
    /\ downstream[n] < MaxSubs
    /\ downstream' = [downstream EXCEPT ![n] = @ + 1]
    /\ cmds' = IF SubscribeLinks(linked[n]) THEN PairLinkJsSignal(n, TRUE, cmds)
               ELSE cmds
    /\ Len(cmds') + Len(wsq) <= MaxQueue
    /\ UNCHANGED <<cls, linked, written, wsq, ws>>
    /\ UNCHANGED idvars
    /\ UNCHANGED metavars
    /\ UNCHANGED jsvars

\* JSSignal._unsubscribe sends an unlink notification
UnsubscribeUnlinks(isLinked, ndown) == isLinked /\ ndown = 0

\* JSSignal._unsubscribe
Unsubscribe(n) ==
    /\ n \in JSSignalNames
    /\ downstream[n] > 0
    /\ downstream' = [downstream EXCEPT ![n] = @ - 1]
    /\ cmds' = IF UnsubscribeUnlinks(linked[n], downstream'[n])
               THEN PairLinkJsSignal(n, FALSE, cmds)
               ELSE cmds
    /\ Len(cmds') + Len(wsq) <= MaxQueue
    /\ UNCHANGED <<cls, linked, written, wsq, ws>>
    /\ UNCHANGED idvars
    /\ UNCHANGED metavars
    /\ UNCHANGED jsvars

\* the Python side receives 'SIGNAL <id> <name> <text>': it looks the instance
\* up, decodes the value and sets the named signal, whose change the
\* reactive layer reports to _signal_changed
PyRecv ==
    /\ wsq # <<>>
    /\ wsq' = Tail(wsq)
    /\ cmds' = IF get_instance_by_id(Head(wsq).id) # None
               THEN PairSignalChanged(Head(wsq).name, loads(Head(wsq).arg), cmds)
               ELSE cmds
    /\ Len(cmds') + Len(wsq') <= MaxQueue
    /\ UNCHANGED ws
    /\ UNCHANGED idvars
    /\ UNCHANGED metavars
    /\ UNCHANGED pyvars
    /\ UNCHANGED jsvars

(* ------------------------------ JS side -------------------------------- *)

\* JsSignalChanged without its test of the lock
JsSignalChanged_NoLock(name, value, lk, q) ==
    IF ~ws THEN [lock |-> lk, wsq |-> q]
    ELSE IF JSAttr(name) # "PySignal" /\ ~StartsWithUnderscore(name)
         THEN [lock |-> lk,
               wsq |-> Append(q, Command("SIGNAL", PairId, name, saves(value)))]
         ELSE [lock |-> lk, wsq |-> q]

\* Pair.JS._signal_changed(signal): the lock and the sent messages after it
JsSignalChanged(name, value, lk, q) ==
    IF ~ws THEN [lock |-> lk, wsq |-> q]
    ELSE IF lk THEN [lock |-> FALSE, wsq |-> q]
    ELSE IF JSAttr(name) # "PySignal" /\ ~StartsWithUnderscore(name)
         THEN [lock |-> lk,
               wsq |-> Append(q, Command("SIGNAL", PairId, name, saves(value)))]
         ELSE [lock |-> lk, wsq |-> q]

\* 'flexx.instances.<id> = new <Class>(<id>)': Pair.JS.__init__
JsNew ==
    /\ cmds # <<>>
    /\ Head(cmds).kind = "new"
    /\ cmds' = Tail(cmds)
    /\ jsinst' = TRUE
    /\ jsval' = [n \in JSSignals |-> 0]
    /\ jsts' = [n \in JSSignals |-> 0]
    /\ lock' = FALSE
    /\ linked_signals' = {}
    /\ jserr' = FALSE
    /\ UNCHANGED <<wsq, ws>>
    /\ UNCHANGED idvars
    /\ UNCHANGED metavars
    /\ UNCHANGED pyvars

\* Pair.JS._set_signal_from_py(name, text). When self[name] is no signal the
\* call self[name]._set raises, after the lock was set.
JsSetSignalFromPy ==
    /\ cmds # <<>>
    /\ Head(cmds).kind = "_set_signal_from_py"
    /\ jsinst
    /\ cmds' = Tail(cmds)
    /\ LET name == Head(cmds).name
           text == Head(cmds).arg
       IN  IF CanLoad(text) /\ name \in JSSignals
           THEN LET r == JsSignalChanged(name, loads(text), TRUE, wsq)
                IN  /\ jsval' = [jsval EXCEPT ![name] = loads(text)]
                    /\ jsts' = [jsts EXCEPT ![name] = 2]
                    /\ lock' = r.lock
                    /\ wsq' = r.wsq
                    /\ jserr' = FALSE
           ELSE /\ lock' = TRUE
                /\ jserr' = TRUE
                /\ UNCHANGED <<jsval, jsts, wsq>>
    /\ Len(cmds') + Len(wsq') <= MaxQueue
    /\ UNCHANGED <<jsinst, linked_signals, ws>>
    /\ UNCHANGED idvars
    /\ UNCHANGED metavars
    /\ UNCHANGED pyvars

\* Pair.JS._link_js_signal(name, link)
JsLinkJsSignal ==
    /\ cmds # <<>>
    /\ Head(cmds).kind = "_link_js_signal"
    /\ jsinst
    /\ cmds' = Tail(cmds)
    /\ LET name == Head(cmds).name
       IN  IF Head(cmds).arg = "true"
           THEN /\ linked_signals' = linked_signals \cup {name}
                /\ LET r == IF name \in JSSignals /\ jsts[name] > 1
                            THEN JsSignalChanged(name, jsval[name], lock, wsq)
                            ELSE [lock |-> lock, wsq |-> wsq]
                   IN  /\ lock' = r.lock
                       /\ wsq' = r.wsq
           ELSE /\ linked_signals' = linked_signals \ {name}
                /\ UNCHANGED <<lock, wsq>>
    /\ Len(cmds') + Len(wsq') <= MaxQueue
    /\ jserr' = FALSE
    /\ UNCHANGED <<jsinst, jsval, jsts, ws>>
    /\ UNCHANGED idvars
    /\ UNCHANGED metavars
    /\ UNCHANGED pyvars

\* JS code sets a signal that can be set in JS (a signal of the JS body, or
\* the proxy of a Python input signal); the reactive layer then calls
\* _signal_changed
JsWrite(n, v) ==
    /\ jsinst
    /\ JSAttr(n) \in {"Signal", "PyInputSignal"}
    /\ LET r == JsSignalChanged(n, v, lock, wsq)
       IN  /\ lock' = r.lock
           /\ wsq' = r.wsq
    /\ Len(cmds) + Len(wsq') <= MaxQueue
    /\ jsval' = [jsval EXCEPT ![n] = v]
    /\ jsts' = [jsts EXCEPT ![n] = 2]
    /\ jserr' = FALSE
    /\ UNCHANGED <<jsinst, linked_signals, cmds, ws>>
    /\ UNCHANGED idvars
    /\ UNCHANGED metavars
    /\ UNCHANGED pyvars

\* the JS side cleans its object up, independently of the Python side:
\* flexx.instances holds no object under the id from then on
JsCollect ==
    /\ jsinst
    /\ jsinst' = FALSE
    /\ jsval' = [n \in JSSignals |-> 0]
    /\ jsts' = [n \in JSSignals |-> 0]
    /\ lock' = FALSE
    /\ linked_signals' = {}
    /\ jserr' = FALSE
    /\ UNCHANGED <<cmds, wsq, ws>>
    /\ UNCHANGED idvars
    /\ UNCHANGED metavars
    /\ UNCHANGED pyvars

\* JS runs 'flexx.instances.<id>._set_signal_from_py(...)' or
\* 'flexx.instances.<id>._link_js_signal(...)' while flexx.instances holds
\* no object under the id: the command text tests nothing, flexx.instances.<id>
\* is undefined and the method call on it raises a TypeError
JsRunOnAbsent ==
    /\ cmds # <<>>
    /\ Head(cmds).kind \in {"_set_signal_from_py", "_link_js_signal"}
    /\ ~jsinst
    /\ cmds' = Tail(cmds)
    /\ jserr' = TRUE
    /\ UNCHANGED <<jsinst, jsval, jsts, lock, linked_signals, wsq, ws>>
    /\ UNCHANGED idvars
    /\ UNCHANGED metavars
    /\ UNCHANGED pyvars

\* the websocket closes: flexx.ws is None from then on
WsClose ==
    /\ ws
    /\ ws' = FALSE
    /\ UNCHANGED <<cmds, wsq>>
    /\ UNCHANGED idvars
    /\ UNCHANGED metavars
    /\ UNCHANGED pyvars
    /\ UNCHANGED jsvars

(* ---------------------------- class mirroring -------------------------- *)

\* The classes that SpecMeta defines: Base(Pair), A(Base), B(Base), C(A, B).
\* Pair itself, whose members have other names, is left out of the bases.
MetaClasses == {"Base", "A", "B", "C"}

\* cls.__bases__
BasesOf ==
    [c \in MetaClasses |->
        CASE c = "Base" -> <<>>
          [] c = "A" -> <<"Base">>
          [] c = "B" -> <<"Base">>
          [] c = "C" -> <<"A", "B">>]

\* the names a class body declares: an ordinary name and a magic name that
\* is none of OK_MAGICS
MetaNames == {"x", "__r__"}

\* name.startswith('__')
StartsWithDunder(name) == name \in {"__r__", "__init__", "__json__", "__from_json__"}

OK_MAGICS == {"__init__", "__json__", "__from_json__"}

\* what a Python class body binds a name to, and what a JS class body does
PyKinds == {"Signal", "InputSignal", "method"}

JSKinds == {"Signal", "function"}

\* the class bodies: the ordinary name bound or not, and in a JS body the
\* magic name bound to a function or not
PyBodies == {<<>>} \cup {("x" :> k) : k \in PyKinds}

JSBodies ==
    LET xs == {<<>>} \cup {("x" :> k) : k \in JSKinds}
    IN  xs \cup {("__r__" :> "function") @@ b : b \in xs}

\* the linearization that type() gives a class with these bases (C3): the
\* first head that is in the tail of none of the sequences is taken next
RECURSIVE Merge(_)
Merge(seqs) ==
    LET ne == SelectSeq(seqs, LAMBDA q : q # <<>>)
    IN  IF ne = <<>> THEN <<>>
        ELSE LET good(h) == \A i \in 1 .. Len(ne) :
                                \A k \in 2 .. Len(ne[i]) : ne[i][k] # h
                 idx == CHOOSE i \in 1 .. Len(ne) :
                            /\ good(Head(ne[i]))
                            /\ \A j \in 1 .. (i - 1) : ~good(Head(ne[j]))
                 h == Head(ne[idx])
             IN  <<h>> \o Merge([i \in 1 .. Len(ne) |->
                                    IF Head(ne[i]) = h THEN Tail(ne[i]) ELSE ne[i]])

\* the order in which the class c got from JsBases, and its JS class, resolve
\* an attribute
RECURSIVE Mro(_, _)
Mro(bases, c) ==
    <<c>> \o Merge([i \in 1 .. Len(bases[c]) |-> Mro(bases, bases[c][i])]
                   \o <<bases[c]>>)

\* JsBases with the bases in reverse order
JsBases_Reversed ==
    [c \in MetaClasses |->
        [i \in 1 .. Len(BasesOf[c]) |-> BasesOf[c][Len(BasesOf[c]) + 1 - i]]]

\* jsbases: the JS classes of cls.__bases__, in their order
JsBases == BasesOf

MroOf == [c \in MetaClasses |-> Mro(BasesOf, c)]

JsMroOf == [c \in MetaClasses |-> Mro(JsBases, c)]

\* an attribute: what it is and the class whose definition created it
Member(kind, c) == [kind |-> kind, owner |-> c]

\* no attribute: hasattr is False
Undefined == [kind |-> "undefined", owner |-> "none"]

\* getattr along a resolution order, over the __dict__s d
RECURSIVE LookupIn(_, _, _)
LookupIn(d, mro, name) ==
    IF mro = <<>> THEN Undefined
    ELSE IF Head(mro) \in DOMAIN d /\ name \in DOMAIN d[Head(mro)]
         THEN d[Head(mro)][name]
         ELSE LookupIn(d, Tail(mro), name)

\* cls.__dict__ after the JS signals of the body got their proxies: a JS signal
\* gets a JSSignal when the class has no attribute of its name
PyClassDict(c, pybody, jsbody, pd) ==
    LET own == [n \in DOMAIN pybody |-> Member(pybody[n], c)]
        proxied == {n \in DOMAIN jsbody :
                       /\ jsbody[n] = "Signal"
                       /\ LookupIn((c :> own) @@ pd, MroOf[c], n) = Undefined}
    IN  [n \in DOMAIN own \cup proxied |->
            IF n \in DOMAIN own THEN own[n] ELSE Member("JSSignal", c)]

\* not hasattr(cls.JS, name), where existing is what cls.JS resolves name to
AttachesPyProxy_Always(existing) == TRUE

AttachesPyProxy(existing) == existing = Undefined

\* the proxy class for a Python signal
ProxyKind(kind) == IF kind = "InputSignal" THEN "PyInputSignal" ELSE "PySignal"

\* cls.JS.__dict__ after the merge of the JS body and after the Python
\* signals of cls.__dict__ (pyd) got their proxies
JsClassDict(c, pyd, jsbody, jd) ==
    LET own == [n \in {m \in DOMAIN jsbody : ~StartsWithDunder(m) \/ m \in OK_MAGICS}
                   |-> Member(jsbody[n], c)]
        mirrored == {n \in DOMAIN pyd :
                        /\ pyd[n].kind \in {"Signal", "InputSignal"}
                        /\ AttachesPyProxy(LookupIn((c :> own) @@ jd, JsMroOf[c], n))}
    IN  [n \in DOMAIN own \cup mirrored |->
            IF n \in mirrored THEN Member(ProxyKind(pyd[n].kind), c) ELSE own[n]]

\* the class statement of c runs PairMeta.__init__
DefineClass(c) ==
    /\ c \notin DOMAIN pydict
    /\ \A i \in 1 .. Len(BasesOf[c]) : BasesOf[c][i] \in DOMAIN pydict
    /\ \E pybody \in PyBodies, jsbody \in JSBodies :
          LET pyd == PyClassDict(c, pybody, jsbody, pydict)
          IN  /\ pydict' = (c :> pyd) @@ pydict
              /\ jsdict' = (c :> JsClassDict(c, pyd, jsbody, jsdict)) @@ jsdict
              /\ jsdecl' = (c :> jsbody) @@ jsdecl
    /\ UNCHANGED <<cmds, wsq, ws>>
    /\ UNCHANGED idvars
    /\ UNCHANGED pyvars
    /\ UNCHANGED jsvars

(* --------------------------- specifications ---------------------------- *)

\* Spec: a process has constructed its first Pair instance, of either class.
\* The commands of Pair.__init__ are with the channel, nothing subscribes yet,
\* the JS side has run nothing.
Init ==
    /\ cls \in ClassNames
    /\ counter = 1
    /\ instances = (MakeId(cls, 1) :> 1)
    /\ heap = {[h |-> 1, cls |-> cls, id |-> MakeId(cls, 1)]}
    /\ downstream = [n \in JSSignalNames |-> 0]
    /\ linked = [n \in JSSignalNames |-> FALSE]
    /\ written = <<>>
    /\ cmds = <<Command("new", MakeId(cls, 1), cls, MakeId(cls, 1))>>
              \o InitCommands(cls, MakeId(cls, 1))
    /\ wsq = <<>>
    /\ jsinst = FALSE
    /\ jsval = [n \in JSSignals |-> 0]
    /\ jsts = [n \in JSSignals |-> 0]
    /\ lock = FALSE
    /\ linked_signals = {}
    /\ jserr = FALSE
    /\ pydict = <<>>
    /\ jsdict = <<>>
    /\ jsdecl = <<>>
    /\ ws \in BOOLEAN

Next ==
    \/ \E n \in Names, v \in Values : PyWrite(n, v)
    \/ \E n \in Names : CallJs(n)
    \/ \E n \in Names : Subscribe(n)
    \/ \E n \in Names : Unsubscribe(n)
    \/ PyRecv
    \/ JsNew
    \/ JsSetSignalFromPy
    \/ JsLinkJsSignal
    \/ \E n \in Names, v \in Values : JsWrite(n, v)
    \/ JsCollect
    \/ JsRunOnAbsent
    \/ WsClose

Spec == Init /\ [][Next]_vars

\* SpecIds: a fresh process; instances are constructed and collected, and no
\* command is run yet.
InitIds ==
    /\ cls = "W"
    /\ counter = 0
    /\ instances = <<>>
    /\ heap = {}
    /\ downstream = [n \in JSSignalNames |-> 0]
    /\ linked = [n \in JSSignalNames |-> FALSE]
    /\ written = <<>>
    /\ cmds = <<>>
    /\ wsq = <<>>
    /\ jsinst = FALSE
    /\ jsval = [n \in JSSignals |-> 0]
    /\ jsts = [n \in JSSignals |-> 0]
    /\ lock = FALSE
    /\ linked_signals = {}
    /\ jserr = FALSE
    /\ pydict = <<>>
    /\ jsdict = <<>>
    /\ jsdecl = <<>>
    /\ ws = FALSE

NextIds ==
    \/ \E c \in ClassNames : ConstructPair(c)
    \/ \E o \in heap : Collect(o)

SpecIds == InitIds /\ [][NextIds]_vars

\* the signals of an instance of c that live in Python
PySignalsOf ==
    [c \in ClassNames |-> {n \in Names : PyAttrs[c][n] \in {"Signal", "InputSignal"}}]

\* SpecLww: as Spec, with the history of Python writes kept and with no
\* write, call or clean-up on the JS side. No push message is ever sent, so
\* the Python side receives none.
InitLww ==
    /\ cls \in ClassNames
    /\ counter = 1
    /\ instances = (MakeId(cls, 1) :> 1)
    /\ heap = {[h |-> 1, cls |-> cls, id |-> MakeId(cls, 1)]}
    /\ downstream = [n \in JSSignalNames |-> 0]
    /\ linked = [n \in JSSignalNames |-> FALSE]
    /\ written = [n \in PySignalsOf[cls] |-> 0]
    /\ cmds = <<Command("new", MakeId(cls, 1), cls, MakeId(cls, 1))>>
              \o InitCommands(cls, MakeId(cls, 1))
    /\ wsq = <<>>
    /\ jsinst = FALSE
    /\ jsval = [n \in JSSignals |-> 0]
    /\ jsts = [n \in JSSignals |-> 0]
    /\ lock = FALSE
    /\ linked_signals = {}
    /\ jserr = FALSE
    /\ pydict = <<>>
    /\ jsdict = <<>>
    /\ jsdecl = <<>>
    /\ ws \in BOOLEAN

NextLww ==
    \/ \E n \in Names, v \in Values : PyWrite(n, v)
    \/ \E n \in Names : Subscribe(n)
    \/ \E n \in Names : Unsubscribe(n)
    \/ JsNew
    \/ JsSetSignalFromPy
    \/ JsLinkJsSignal
    \/ WsClose

SpecLww == InitLww /\ [][NextLww]_vars

\* SpecMeta: a module that defines the classes of the hierarchy, each with
\* any of the bodies; no instance is constructed.
InitMeta == InitIds

NextMeta == \E c \in MetaClasses : DefineClass(c)

SpecMeta == InitMeta /\ [][NextMeta]_vars

(* ------------------------------- claims -------------------------------- *)

\* the Python signals of class c that have a mirror proxy on the JS class
MirrorProxiesOf ==
    [c \in ClassNames |->
        {n \in Names : /\ PyAttrs[c][n] \in {"Signal", "InputSignal"}
                       /\ JSAttrs[c][n] \in {"PySignal", "PyInputSignal"}}]

MirrorProxies == MirrorProxiesOf[cls]

\* the JS signals of class c that have a JSSignal proxy on the Python class
RemoteSourcedOf ==
    [c \in ClassNames |->
        {n \in Names : JSAttrs[c][n] = "Signal" /\ PyAttrs[c][n] = "JSSignal"}]

RemoteSourced == RemoteSourcedOf[cls]

\* this step submits the command c to the command channel
Submits(c) == Len(cmds') = Len(cmds) + 1 /\ cmds'[Len(cmds')] = c

\* this step sends the push message 'SIGNAL <id> n <text>'
Pushes(n) ==
    /\ Len(wsq') = Len(wsq) + 1
    /\ wsq'[Len(wsq')].kind = "SIGNAL"
    /\ wsq'[Len(wsq')].name = n

\* C1: when the JS side runs the apply-command that the Python write S = v
\* produced, for a signal S with a mirror proxy, the proxy holds v afterwards
\* and the step sends no push message.
C1_ApplyMirrorsWithoutEcho ==
    [][( /\ cmds # <<>>
         /\ Head(cmds).kind = "_set_signal_from_py"
         /\ Head(cmds).id = PairId
         /\ Head(cmds).name \in MirrorProxies
         /\ \E v \in Values : Head(cmds).arg = saves(v)
         /\ JsSetSignalFromPy )
       => /\ \A v \in Values :
                Head(cmds).arg = saves(v) => jsval'[Head(cmds).name] = v
          /\ wsq' = wsq]_vars

\* C1: a proxy that only an apply-command sets holds a value other than its
\* default, with a connection present and the lock consumed.
C1_Witness ==
    /\ jsinst /\ ws /\ ~lock /\ wsq = <<>>
    /\ \E n \in JSSignals : JSAttr(n) = "PySignal" /\ jsts[n] > 1 /\ jsval[n] = 1

\* C2: a link notification for a JSSignal is submitted only by a step that
\* takes the signal's subscriber count from 0 to 1.
C2_LinkOnlyOnFirstSubscriber ==
    [][\A n \in JSSignalNames :
          Submits(Command("_link_js_signal", PairId, n, "true"))
          => (downstream[n] = 0 /\ downstream'[n] = 1)]_vars

\* C3: the unsubscribe that removes the last subscriber of a JSSignal submits
\* an unlink notification.
C3_UnlinkOnLastUnsubscribe ==
    [][\A n \in JSSignalNames :
          (Unsubscribe(n) /\ downstream[n] = 1)
          => Submits(Command("_link_js_signal", PairId, n, "false"))]_vars

\* C4: with a connection present, running a link notification for a synced
\* JS signal that was assigned before sends exactly one push message, which
\* carries the signal's current value; for a signal never assigned it sends
\* none. (The claim, for the cases in which a message can be sent.)
C4_LinkCatchesUp ==
    [][\A n \in RemoteSourced :
          ( /\ JsLinkJsSignal
            /\ Head(cmds).name = n /\ Head(cmds).arg = "true"
            /\ ws /\ ~StartsWithUnderscore(n) )
          => IF jsts[n] > 1
             THEN wsq' = Append(wsq, Command("SIGNAL", PairId, n, saves(jsval[n])))
             ELSE wsq' = wsq]_vars

\* C5: a push message for a JS signal is sent only while the signal is
\* linked on the JS side.
C5_PushOnlyWhileLinked ==
    [][\A n \in RemoteSourced : Pushes(n) => n \in linked_signals']_vars

\* C6: any two constructed instances have different ids: no two construct
\* commands carry the same id.
C6_IdsNeverReused ==
    \A i, j \in 1 .. Len(cmds) :
        (i < j /\ cmds[i].kind = "new" /\ cmds[j].kind = "new")
        => cmds[i].id # cmds[j].id

\* C7: the registry returns each live instance under its id, and holds no
\* entry for an id that no live instance has.
C7_LookupReturnsLiveInstance ==
    /\ \A o \in heap : get_instance_by_id(o.id) = o.h
    /\ \A id \in DOMAIN instances :
          \E o \in heap : o.id = id /\ o.h = get_instance_by_id(id)

\* C8: no command that addresses an id is submitted before the construct
\* command for that id, and each id has one construct command.
C8_ConstructIsFirstCommand ==
    \A i \in 1 .. Len(cmds) :
        /\ cmds[i].kind = "new" => \A j \in 1 .. (i - 1) : cmds[j].id # cmds[i].id
        /\ cmds[i].kind # "new"
           => \E j \in 1 .. (i - 1) : cmds[j].kind = "new" /\ cmds[j].id = cmds[i].id

\* C9: a changed-notification on the Python side submits exactly one
\* apply-command with the instance's id, the signal's name and the encoded
\* new value when the signal is no JSSignal, and no command when it is one.
C9_ChangedSubmitsOneApply ==
    [][/\ \A n \in Names, v \in Values :
            PyWrite(n, v)
            => cmds' = Append(cmds, Command("_set_signal_from_py", PairId, n, saves(v)))
       /\ (PyRecv /\ get_instance_by_id(Head(wsq).id) # None)
          => IF PyAttr(Head(wsq).name) = "JSSignal"
             THEN cmds' = cmds
             ELSE cmds' = Append(cmds, Command("_set_signal_from_py", PairId,
                                               Head(wsq).name,
                                               saves(loads(Head(wsq).arg))))]_vars

\* C9: an apply-command carrying the encoding of a value other than the
\* default waits in the channel.
C9_Witness ==
    \E i \in 1 .. Len(cmds) :
        /\ cmds[i].kind = "_set_signal_from_py"
        /\ cmds[i].id = PairId
        /\ cmds[i].name \in MirrorProxies
        /\ cmds[i].arg = saves(1)

\* C10: running an apply-command that names no signal of the instance leaves
\* the signal values, the timestamps, the linked bookkeeping and the lock as
\* they were.
C10_UnknownSignalLeavesInstance ==
    [][(JsSetSignalFromPy /\ Head(cmds).name \notin JSSignals)
       => UNCHANGED <<jsval, jsts, lock, linked_signals>>]_vars

\* C11: when the text of an apply-command does not decode, running the
\* command raises the failure, changes no signal value and leaves the lock
\* with the value it had before.
C11_DecodeFailureLeavesInstance ==
    [][(JsSetSignalFromPy /\ ~CanLoad(Head(cmds).arg))
       => (jserr' /\ UNCHANGED <<jsval, jsts, lock>>)]_vars

\* C12: an apply-command or a link notification that JS runs while no object
\* is registered under its id changes no state of the JS side and raises no
\* error; and looking up an id that is not registered yields None.
C12_UnregisteredIdIsNoOp ==
    [][/\ ( /\ cmds # <<>>
            /\ Head(cmds).kind \in {"_set_signal_from_py", "_link_js_signal"}
            /\ ~jsinst
            /\ cmds' = Tail(cmds) )
          => ( /\ UNCHANGED <<jsinst, jsval, jsts, lock, linked_signals, wsq>>
               /\ ~jserr' )
       /\ \A c \in ClassNames, n \in 0 .. MaxCounter :
             MakeId(c, n) \notin DOMAIN instances
             => get_instance_by_id(MakeId(c, n)) = None]_vars

\* the Python signals of class c whose mirror proxy was omitted
CollidedOf ==
    [c \in ClassNames |->
        {n \in Names : /\ PyAttrs[c][n] \in {"Signal", "InputSignal"}
                       /\ JSAttrs[c][n] \notin {"PySignal", "PyInputSignal"}}]

\* C14: no step submits an apply-command that carries a value for a signal
\* whose mirror proxy was omitted.
C14_CollidedSignalDoesNotSync ==
    [][\A n \in CollidedOf[cls], v \in Values :
          ~Submits(Command("_set_signal_from_py", PairId, n, saves(v)))]_vars

\* C18: when the Python side receives a push message for a registered
\* instance and assigns its value to the named signal, no command is
\* submitted to the JS side.
C18_PushCausesNoApply ==
    [][(PyRecv /\ get_instance_by_id(Head(wsq).id) # None) => cmds' = cmds]_vars

\* the least and the greatest of a set of positions
First(S) == CHOOSE i \in S : \A j \in S : i <= j

Last(S) == CHOOSE i \in S : \A j \in S : i >= j

\* the positions in the command channel of the apply-commands for n
AppliesOf(n) ==
    {i \in 1 .. Len(cmds) : cmds[i].kind = "_set_signal_from_py" /\ cmds[i].name = n}

C20_LockClearBetweenCommands ==
    [][/\ ~lock'
       /\ \A n \in Names, v \in Values :
             ( /\ JsWrite(n, v) /\ ws
               /\ JSAttr(n) # "PySignal" /\ ~StartsWithUnderscore(n) )
             => wsq' = Append(wsq, Command("SIGNAL", PairId, n, saves(v)))]_vars

(* ------------------------ claims on class mirroring -------------------- *)

\* what the JS class of c resolves the name n to, and what it inherits for it
JsResolve(c, n) == LookupIn(jsdict, JsMroOf[c], n)

JsInherited(c, n) == LookupIn(jsdict, Tail(JsMroOf[c]), n)

\* what the class c resolves the name n to, and what it inherits for it
PyResolve(c, n) == LookupIn(pydict, MroOf[c], n)

PyInherited(c, n) == LookupIn(pydict, Tail(MroOf[c]), n)

\* the body of c declares the plain signal n
DeclaresPySignal(c, n) ==
    n \in DOMAIN pydict[c] /\ pydict[c][n].kind \in {"Signal", "InputSignal"}

\* the member n that the JS class of c has before the Python signals are
\* mirrored: the one of its own JS body, else the inherited one
JsMemberBefore(c, n) ==
    IF n \in DOMAIN jsdecl[c] /\ (~StartsWithDunder(n) \/ n \in OK_MAGICS)
    THEN Member(jsdecl[c][n], c)
    ELSE JsInherited(c, n)

\* the attribute n that the class c has before the JS signals are mirrored:
\* the one of its own body, else the inherited one
PyMemberBefore(c, n) ==
    IF n \in DOMAIN pydict[c] /\ pydict[c][n].kind \in PyKinds
    THEN pydict[c][n]
    ELSE PyInherited(c, n)

\* C13: every class definition completes, and in every defined class a
\* plain signal whose name is a non-signal member of the own or inherited JS
\* class leaves that member in place and gets no PySignal or PyInputSignal
\* there; a JS signal whose name is a non-proxy attribute of the Python class
\* leaves that attribute in place and gets no JSSignal.
C13_CollisionOmitsProxy ==
    \A c \in DOMAIN pydict, n \in MetaNames :
        /\ (DeclaresPySignal(c, n) /\ JsMemberBefore(c, n).kind = "function")
           => /\ JsResolve(c, n) = JsMemberBefore(c, n)
              /\ n \in DOMAIN jsdict[c]
                 => jsdict[c][n].kind \notin {"PySignal", "PyInputSignal"}
        /\ ( /\ n \in DOMAIN jsdecl[c] /\ jsdecl[c][n] = "Signal"
             /\ PyMemberBefore(c, n).kind \in PyKinds )
           => /\ PyResolve(c, n) = PyMemberBefore(c, n)
              /\ n \in DOMAIN pydict[c] => pydict[c][n].kind # "JSSignal"

\* C13: a class declares a plain signal under the name of a function that
\* its JS class inherits, and another declares a JS signal under the name of
\* a method it inherits.
C13_Witness ==
    /\ \E c \in DOMAIN pydict :
          DeclaresPySignal(c, "x") /\ JsInherited(c, "x").kind = "function"
    /\ \E c \in DOMAIN pydict :
          /\ "x" \in DOMAIN jsdecl[c] /\ jsdecl[c]["x"] = "Signal"
          /\ PyInherited(c, "x").kind = "method"

\* the positions, in base order, of the direct ancestors of c whose JS class
\* defines the member n
Carriers(c, n) ==
    {i \in 1 .. Len(BasesOf[c]) : n \in DOMAIN jsdict[BasesOf[c][i]]}

\* C15, as claimed: when several direct ancestors' JS classes define a member
\* and the class's own JS body does not, the JS class resolves the name to
\* the definition of the last of them in base order; a member declared in
\* the own JS body under a name that an ancestor defines is what the JS class
\* resolves the name to.
C15_LaterAncestorOverrides ==
    \A c \in DOMAIN jsdict, n \in MetaNames :
        /\ (Cardinality(Carriers(c, n)) >= 2 /\ n \notin DOMAIN jsdecl[c])
           => JsResolve(c, n) = jsdict[BasesOf[c][Last(Carriers(c, n))]][n]
        /\ (n \in DOMAIN jsdecl[c] /\ JsInherited(c, n) # Undefined)
           => JsResolve(c, n) = Member(jsdecl[c][n], c)

\* C15, amended: of several direct ancestors whose JS classes define a
\* member it is the first in base order whose definition the JS class
\* resolves the name to; a member declared in the own JS body under a name
\* that does not start with '__', or under one of OK_MAGICS, is what the JS
\* class resolves its name to, and a member under another magic name is not
\* taken over.
C15_EarlierAncestorOverrides ==
    \A c \in DOMAIN jsdict, n \in MetaNames :
        /\ (Cardinality(Carriers(c, n)) >= 2 /\ n \notin DOMAIN jsdecl[c])
           => JsResolve(c, n) = jsdict[BasesOf[c][First(Carriers(c, n))]][n]
        /\ n \in DOMAIN jsdecl[c]
           => IF ~StartsWithDunder(n) \/ n \in OK_MAGICS
              THEN JsResolve(c, n) = Member(jsdecl[c][n], c)
              ELSE n \notin DOMAIN jsdict[c]

\* C15: class C is defined without a JS member x of its own while the JS
\* classes of both its bases define x; and a class declares a JS member x
\* that its JS class would otherwise inherit.
C15_Witness ==
    /\ "C" \in DOMAIN jsdict
    /\ Carriers("C", "x") = {1, 2}
    /\ "x" \notin DOMAIN jsdecl["C"]
    /\ \E c \in DOMAIN jsdict :
          "x" \in DOMAIN jsdecl[c] /\ JsInherited(c, "x") # Undefined

\* the JS class of c carries a mirror proxy for n that its own class
\* definition created
HasOwnProxy(c, n) ==
    /\ n \in DOMAIN jsdict[c]
    /\ jsdict[c][n].kind \in {"PySignal", "PyInputSignal"}
    /\ jsdict[c][n].owner = c

\* Base declares the plain signal x, which is mirrored, and the siblings A
\* and B both declare a plain signal x again
SiblingsOverride ==
    /\ {"Base", "A", "B"} \subseteq DOMAIN pydict
    /\ DeclaresPySignal("Base", "x") /\ HasOwnProxy("Base", "x")
    /\ DeclaresPySignal("A", "x") /\ DeclaresPySignal("B", "x")

\* C16: when A(Base) and B(Base) both override Base's plain signal x, the
\* JS class of A and the JS class of B each carry a proxy for x of their own,
\* and a class definition, which attaches members to the JS class of the
\* class defined, changes the JS class of no other class.
C16_SiblingsCarryOwnProxy ==
    [][/\ (SiblingsOverride => (HasOwnProxy("A", "x") /\ HasOwnProxy("B", "x")))'
       /\ \A d \in DOMAIN jsdict : jsdict'[d] = jsdict[d]]_vars

\* C17: for every defined class and every plain signal of its body that the
\* JS class resolves to a mirror proxy (no collision suppressed it), the
\* proxy is a PyInputSignal exactly when the signal is an input signal, and a
\* PySignal otherwise.
C17_ProxyVariantFollowsSignal ==
    \A c \in DOMAIN pydict, n \in MetaNames :
        (DeclaresPySignal(c, n) /\ JsResolve(c, n).kind \in {"PySignal", "PyInputSignal"})
        => JsResolve(c, n).kind = ProxyKind(pydict[c][n].kind)

====
